---- MODULE Spec2Model ----
(***************************************************************************)
(* Playback clock and render loop of the audio visualizers.                *)
(*                                                                         *)
(* variant "file" : FileVisualizer (audioFile_matplotlib_visualiser.py)    *)
(*                  and CircularAudioVisualizer of deepseekVisualise.py,   *)
(*                  whose clock and animate code are the same text.        *)
(* variant "alt_mpl"  : alternativeVisualization.py, matplotlib backend.   *)
(* variant "alt_loop" : alternativeVisualization.py, pygame/opencv loop.   *)
(*                                                                         *)
(* Wall-clock time (time.time()) is an integer number of clock ticks,      *)
(* TicksPerSecond ticks to the second.  The clock never runs backwards.    *)
(***************************************************************************)
EXTENDS Integers, Sequences, FiniteSets, TLC

VARIABLES variant, device, frame_count, phase, error,
          is_playing, audio_start_time, sync_adjustments, precomputed_len,
          now, play_calls, stop_calls,
          drawn, next_frame, redraws, closed, loop_i,
          lastTick, prevTick, query,
          script, num_bars, num_freq_bins, log_magnitude, magnitude,
          pframe, prev_heights, precompute_calls, color_query,
          precomputed_heights, precomputed_colors, precomputed_timestamps,
          play_pc, observed,
          audio_queue, captured, shown, bars, animate_pc, capture_alive,
          prev_fft, curve, indata, callbacks

\* play_audio taken statement by statement, and what a reader saw.
tornVars == <<play_pc, observed>>

\* MusicVisualizer (visualize.py): the queue between the capture thread and
\* the render tick, the chunks captured and shown, the bars.
queueVars == <<audio_queue, captured, shown, bars, animate_pc, capture_alive>>

\* RealTimeVisualizer (gptAudioVisualise.py): the smoothing state, the
\* displayed curve and the chunk of the last callback.
realtimeVars == <<prev_fft, curve, indata, callbacks>>

sideVars == <<tornVars, queueVars, realtimeVars>>

\* What the constructor reads and the precompute loop's own position.
inputVars == <<script, num_bars, num_freq_bins, log_magnitude, magnitude,
               pframe, prev_heights, precompute_calls, color_query,
               sideVars>>

\* The precomputed frame records.
storeVars == <<precomputed_heights, precomputed_colors,
               precomputed_timestamps>>

vars == <<variant, device, frame_count, phase, error,
          is_playing, audio_start_time, sync_adjustments, precomputed_len,
          now, play_calls, stop_calls,
          drawn, next_frame, redraws, closed, loop_i,
          lastTick, prevTick, query, inputVars, storeVars>>

\* ---------------------------------------------------------------- bounds
T0 == 256
ClockQuantum == 128
HorizonQuanta == 2
MaxQuanta == 16
MaxRedraws == 2
MaxStops == 2
SmallFrames == 7
LongFrames == 100
SecondParts == 9
MaxPreFrames == 3
MaxBars == 3
MaxBins == 4
LoudMag == 250
SpecBars == 2
SpecBins == 3
MaxColorBars == 8
MaxColorSmall == 9
MaxColorTurns == 15
ColorFrameStride == 250
RtBins == 2
BadBarsDepth == 2
MaxTornTicks == 3
MaxTornPlays == 2
MaxChunks == 3
MaxQueueTicks == 4
MaxCallbacks == 3
RawPeak == 400

\* ------------------------------------------------------ program constants
sr == 22050
hop_length == 256
SyncThreshold == 2
ProgressSteps == 20
BarCeiling == 1000
\* silence_threshold = 0.01 and smooth_alpha = 0.8, amplitudes in thousandths.
SilenceThreshold == 10
SmoothAlphaNum == 4
SmoothAlphaDen == 5

\* One clock tick is one sample period.
TicksPerSecond == sr

\* ---------------------------------------------------------------- helpers
None == <<>>
Some(v) == <<v>>
Val(o) == o[1]

Min(a, b) == IF a <= b THEN a ELSE b
Abs(a) == IF a >= 0 THEN a ELSE -a

\* Python int(n / d) for d > 0: truncation toward zero.
PyInt(n, d) == IF n >= 0 THEN n \div d ELSE -((-n) \div d)

Variants == {"file", "alt_mpl", "alt_loop"}
Devices == {"ok", "absent", "broken"}
\* Track lengths tried: the alt variant cannot be constructed with fewer
\* than ProgressSteps frames, the file variant is run on short tracks.
FrameCounts(v) == IF v = "file" THEN {0, 1, SmallFrames}
                  ELSE {0, 1, ProgressSteps}

\* total_duration = frame_count * hop_length / sr, in clock ticks (rounded up).
total_duration(fc) ==
    (fc * hop_length * TicksPerSecond + sr - 1) \div sr

\* The clock is followed until HorizonQuanta quanta after the end of the
\* track, and for at most MaxQuanta quanta.
MaxNow(fc) == T0 + Min(total_duration(fc) + HorizonQuanta * ClockQuantum,
                       MaxQuanta * ClockQuantum)
ClockSteps == {ClockQuantum, 5 * ClockQuantum}

NoTick == [kind |-> "none", frame |-> 0, playing |-> FALSE,
           expected |-> None, actual |-> None, adj |-> 0]

\* ------------------------------------------------------- the playback clock
\* get_audio_position without the is_playing test.
get_audio_position_nocheck(playing, start, t) ==
    IF start # None /\ Val(start) # 0 THEN t - Val(start) ELSE 0

\* get_audio_position: elapsed clock ticks (seconds * TicksPerSecond).
get_audio_position(playing, start, t) ==
    IF start # None /\ Val(start) # 0 /\ playing THEN t - Val(start) ELSE 0

\* The expected frame without the clamp to the last frame.
ExpectedFrameAt_noclamp(elapsed, fc) ==
    PyInt(elapsed * sr, hop_length * TicksPerSecond)

\* int((audio_time * sr) / hop_length), clamped to frame_count - 1.
ExpectedFrameAt(elapsed, fc) ==
    Min(PyInt(elapsed * sr, hop_length * TicksPerSecond), fc - 1)

\* get_current_frame_from_audio (file) / get_current_frame (alt).
get_current_frame_from_audio(v, playing, start, t, fc) ==
    IF ~playing
    THEN IF v = "file" THEN None ELSE Some(0)
    ELSE Some(ExpectedFrameAt(get_audio_position(playing, start, t), fc))

\* The drift policy with the threshold test off by one (>= instead of >).
DriftPolicy_ge(frame, audio_frame) ==
    IF audio_frame # None /\ Abs(Val(audio_frame) - frame) >= SyncThreshold
    THEN [actual |-> Val(audio_frame), adj |-> 1]
    ELSE [actual |-> frame, adj |-> 0]

\* The drift policy of animate's else-branch.
DriftPolicy(frame, audio_frame) ==
    IF audio_frame # None /\ Abs(Val(audio_frame) - frame) > SyncThreshold
    THEN [actual |-> Val(audio_frame), adj |-> 1]
    ELSE [actual |-> frame, adj |-> 0]

\* ------------------------------------------------------- precomputation
\* Which script's precompute is run: "file" (FileVisualizer), "deepseek"
\* (deepseekVisualise.py) or "alt" (alternativeVisualization.py).
Scripts == {"file", "deepseek", "alt"}

\* Normalized magnitudes are held in thousandths, bar heights in millionths.
\* NaN stands for the floating-point not-a-number.
MilliOne == 1000
NaN == 0 - 1
IsNaN(x) == x = NaN

\* max_radius - inner_radius of the "alt" script, in pixels.
RadiusSpan == 300 - 100

\* The floor of a bar height, in millionths: 1e-6 in FileVisualizer, 0.01 in
\* the two circular visualizers.
FloorFile == 1
FloorCircular == 10000
FloorOf(s) == IF s = "file" THEN FloorFile ELSE FloorCircular

\* smoothing_factor = 0.5
SmoothingNum == 1
SmoothingDen == 2

RECURSIVE ISqrtIn(_, _, _)
ISqrtIn(x, lo, hi) ==
    IF lo >= hi THEN lo
    ELSE LET mid == (lo + hi + 1) \div 2
         IN  IF mid * mid <= x THEN ISqrtIn(x, mid, hi)
             ELSE ISqrtIn(x, lo, mid - 1)

\* np.sqrt on thousandths squared, rounded down to a thousandth.
ISqrt(x) == ISqrtIn(x, 0, 2 * MilliOne)

Max(a, b) == IF a >= b THEN a ELSE b

\* freq_data * np.linspace(1.0, 0.3, len(freq_data)), bin k counted from 0.
Weighted(col, k) ==
    LET n == Len(col)
    IN  IF n = 1 THEN col[k + 1]
        ELSE (col[k + 1] * (10 * (n - 1) - 7 * k)) \div (10 * (n - 1))

bins_per_bar(nfb, n) == nfb \div n

start_idx(i, nfb, n) == i * bins_per_bar(nfb, n)

\* end_idx with every bar treated alike (no remainder for the last bar).
end_idx_uniform(s, i, nfb, n) ==
    Min((i + 1) * bins_per_bar(nfb, n), nfb)

\* end_idx: FileVisualizer gives the last bar the remaining bins.
end_idx(s, i, nfb, n) ==
    IF s = "file"
    THEN Min(IF i = n - 1 THEN nfb ELSE (i + 1) * bins_per_bar(nfb, n), nfb)
    ELSE Min((i + 1) * bins_per_bar(nfb, n), nfb)

RECURSIVE SumSquares(_, _, _)
SumSquares(col, a, b) ==
    IF a >= b THEN 0
    ELSE Weighted(col, a) * Weighted(col, a) + SumSquares(col, a + 1, b)

\* The raw height of bar i: RMS of its weighted bins, floored.  A NaN among
\* the bins makes the RMS NaN, and max(nan, floor) is nan.
RawHeight(s, col, i, n) ==
    LET a == start_idx(i, Len(col), n)
        b == end_idx(s, i, Len(col), n)
    IN  IF b > a
        THEN IF \E k \in a..(b - 1) : IsNaN(col[k + 1]) THEN NaN
             ELSE Max(ISqrt(SumSquares(col, a, b) \div (b - a)) * MilliOne,
                      FloorOf(s))
        ELSE FloorOf(s)

\* range(num_bars) shortened by one bar.
BarRange_short(n) == 0..(n - 2)

\* range(num_bars)
BarRange(n) == 0..(n - 1)

RawBarHeights(s, col, n) ==
    [j \in 1..Cardinality(BarRange(n)) |-> RawHeight(s, col, j - 1, n)]

\* Smoothing that extrapolates past the raw value.
Smooth_overshoot(prev, curr) ==
    [j \in 1..Min(Len(prev), Len(curr)) |->
        IF IsNaN(prev[j]) \/ IsNaN(curr[j]) THEN NaN
        ELSE curr[j] + Abs(curr[j] - prev[j])]

\* [a * prev + (1 - a) * curr for prev, curr in zip(prev_heights, bar_heights)]
Smooth(prev, curr) ==
    [j \in 1..Min(Len(prev), Len(curr)) |->
        IF IsNaN(prev[j]) \/ IsNaN(curr[j]) THEN NaN
        ELSE (SmoothingNum * prev[j] + (SmoothingDen - SmoothingNum) * curr[j])
                 \div SmoothingDen]

\* The height a frame record keeps for a bar: "alt" stores the bar's length
\* in pixels, the other scripts the smoothed height itself.
StoredHeights(s, bar_heights) ==
    IF s = "alt"
    THEN [j \in 1..Len(bar_heights) |->
            IF IsNaN(bar_heights[j]) THEN NaN
            ELSE bar_heights[j] * RadiusSpan]
    ELSE bar_heights

\* ------------------------------------------------------------------ colors
\* The palette: 8-bit channels in "file" and "alt", thousandths in "deepseek".
vibgyor_colors(s) ==
    IF s = "deepseek"
    THEN << <<545, 0, 1000>>, <<294, 0, 510>>, <<0, 0, 1000>>,
            <<0, 1000, 0>>, <<1000, 1000, 0>>, <<1000, 500, 0>>,
            <<1000, 0, 0>> >>
    ELSE << <<139, 0, 255>>, <<75, 0, 130>>, <<0, 0, 255>>, <<0, 255, 0>>,
            <<255, 255, 0>>, <<255, 127, 0>>, <<255, 0, 0>> >>

PaletteLen == Len(vibgyor_colors("file"))

\* steps of precompute_colors
ColorSteps == 50

\* The position of bar i at frame f in palette space is
\* PositionNum / PositionDen: (i + frame_offset * bars_per_color) /
\* bars_per_color with frame_offset = (f * 0.002) % 7 in "file" and
\* "deepseek", (i + f * 0.1) % 7 in "alt".
PositionDen(s, n) == IF s = "alt" THEN 10 ELSE 1000 * n

PositionNum(s, f, i, n) ==
    IF s = "alt" THEN (10 * i + f) % (10 * PaletteLen)
    ELSE 1000 * PaletteLen * i + n * ((2 * f) % (1000 * PaletteLen))

\* The interpolation target without the step to the next palette entry.
next_idx_same(color_idx) == color_idx % PaletteLen

\* next_idx = (color_idx + 1) % len(vibgyor_colors)
next_idx(color_idx) == (color_idx + 1) % PaletteLen

\* The color of bar i at frame f: three channels.  "deepseek" keeps the
\* exact interpolation, as a numerator over 1000 * PositionDen; "alt"
\* truncates each channel to an integer; "file" reads the cached step.
ColorOf(s, f, i, n) ==
    LET q == PositionDen(s, n)
        pnum == PositionNum(s, f, i, n)
        whole == PyInt(pnum, q)
        color_idx == whole % PaletteLen
        factor == pnum - whole * q
        c1 == vibgyor_colors(s)[color_idx + 1]
        c2 == vibgyor_colors(s)[next_idx(color_idx) + 1]
        step_idx == PyInt(factor * (ColorSteps - 1), q)
    IN  [c \in 1..3 |->
          IF s = "deepseek" THEN c1[c] * (q - factor) + c2[c] * factor
          ELSE IF s = "alt" THEN PyInt(c1[c] * q + factor * (c2[c] - c1[c]), q)
          ELSE PyInt(c1[c] * ColorSteps + step_idx * (c2[c] - c1[c]),
                     ColorSteps)]

Colors(s, f, n) ==
    [j \in 1..Cardinality(BarRange(n)) |-> ColorOf(s, f, j - 1, n)]

\* format_timestamp: (minutes, seconds) of a time given in samples.
format_timestamp(samples) ==
    LET seconds == samples \div sr
    IN  <<seconds \div 60, seconds % 60>>

\* The timestamp record FileVisualizer precomputes for a frame.
TimestampOf(f, fc) ==
    [cur |-> format_timestamp(f * hop_length),
     total |-> format_timestamp(fc * hop_length)]

\* The loop body with the palette shifted by one frame once a frame has been
\* processed, so that colors depend on an earlier iteration.
precompute_frame_shiftcolors(s, st, col, f, n, fc) ==
    LET raw == RawBarHeights(s, col, n)
        bar_heights == IF st.prev # None THEN Smooth(Val(st.prev), raw)
                       ELSE raw
    IN  [prev |-> Some(bar_heights),
         heights |-> Append(st.heights, StoredHeights(s, bar_heights)),
         colors |-> Append(st.colors,
                           Colors(s, IF st.prev # None
                                     THEN f + ColorFrameStride ELSE f, n)),
         timestamps |-> IF s = "file"
                        THEN Append(st.timestamps, TimestampOf(f, fc))
                        ELSE st.timestamps]

\* The loop body with prev_heights taken before smoothing.
precompute_frame_rawprev(s, st, col, f, n, fc) ==
    LET raw == RawBarHeights(s, col, n)
        bar_heights == IF st.prev # None THEN Smooth(Val(st.prev), raw)
                       ELSE raw
    IN  [prev |-> Some(raw),
         heights |-> Append(st.heights, StoredHeights(s, bar_heights)),
         colors |-> Append(st.colors, Colors(s, f, n)),
         timestamps |-> IF s = "file"
                        THEN Append(st.timestamps, TimestampOf(f, fc))
                        ELSE st.timestamps]

\* One iteration of the precompute loop on the spectrum column col:
\* st = [prev, heights, colors, timestamps] before frame f.
precompute_frame(s, st, col, f, n, fc) ==
    LET raw == RawBarHeights(s, col, n)
        bar_heights == IF st.prev # None THEN Smooth(Val(st.prev), raw)
                       ELSE raw
    IN  [prev |-> Some(bar_heights),
         heights |-> Append(st.heights, StoredHeights(s, bar_heights)),
         colors |-> Append(st.colors, Colors(s, f, n)),
         timestamps |-> IF s = "file"
                        THEN Append(st.timestamps, TimestampOf(f, fc))
                        ELSE st.timestamps]

EmptyStore ==
    [prev |-> None, heights |-> <<>>, colors |-> <<>>, timestamps |-> <<>>]

\* for frame in range(self.frame_count): the loop from frame f on.
\* Frames f .. g-1 of the loop, in order: the first half of the range, then
\* the second half on its result.
RECURSIVE precompute_range(_, _, _, _, _, _, _)
precompute_range(s, st, M, f, g, n, fc) ==
    IF f >= g THEN st
    ELSE IF g = f + 1 THEN precompute_frame(s, st, M[f + 1], f, n, fc)
    ELSE LET mid == (f + g) \div 2
             half == precompute_range(s, st, M, f, mid, n, fc)
         IN  IF Len(half.heights) >= 0
             THEN precompute_range(s, half, M, mid, g, n, fc)
             ELSE half

precompute_from(s, st, M, f, n, fc) ==
    precompute_range(s, st, M, f, fc, n, fc)

\* ----------------------------------------------------------- normalization
\* M is the log-scaled spectrogram, one column of num_freq_bins magnitudes
\* per frame.
MaxOver(S) ==
    IF S = {} THEN 0
    ELSE LET x == CHOOSE y \in S : \A z \in S : y >= z IN x

BinMax(M, k) == MaxOver({M[f][k] : f \in 1..Len(M)})

GlobalMax(M, nfb) == MaxOver({M[f][k] : f \in 1..Len(M), k \in 1..nfb})

\* self.magnitude /= np.max(self.magnitude): 0 / 0 is nan.
NormalizeGlobal(M, nfb) ==
    LET g == GlobalMax(M, nfb)
    IN  [f \in 1..Len(M) |->
          [k \in 1..nfb |->
             IF g = 0 THEN NaN ELSE (M[f][k] * MilliOne) \div g]]

\* if np.max(freq_data) > 0: self.magnitude[i, :] = freq_data / max
NormalizePerBin(M, nfb) ==
    [f \in 1..Len(M) |->
       [k \in 1..nfb |->
          IF BinMax(M, k) > 0 THEN (M[f][k] * MilliOne) \div BinMax(M, k)
          ELSE M[f][k]]]

Normalize(s, M, nfb) ==
    IF s = "deepseek" THEN NormalizeGlobal(M, nfb)
    ELSE NormalizePerBin(M, nfb)

\* ------------------------------------------------------------ construction
MixerInitRaises(d) == d = "absent"

\* A normalization that tolerates an empty spectrogram.
NormalizeRaises_never(fc) == FALSE

\* np.max over an empty row of the magnitude matrix raises ValueError.
NormalizeRaises(fc) == fc = 0

\* frame % (frame_count // 20) raises ZeroDivisionError in the alt variant.
ProgressRaises(v, fc) ==
    v # "file" /\ fc > 0 /\ (fc \div ProgressSteps) = 0

\* The clock and animate text of "file" is shared by FileVisualizer and
\* deepseekVisualise.py; the alt variants are alternativeVisualization.py.
ScriptsOf(v) == IF v = "file" THEN {"file", "deepseek"} ELSE {"alt"}

\* The shapes a spectrum column is drawn from.
Shapes == {"zero", "faint", "tilt"}

Column(shape, nfb) ==
    [k \in 1..nfb |->
        IF shape = "faint" THEN 1
        ELSE IF shape = "tilt" /\ k = 1 THEN LoudMag
        ELSE 0]

\* The track the session specifications play: its columns cycle through
\* the shapes.
ShapeCycle == <<"tilt", "zero", "faint">>

SampleSpectrogram(fc, nfb) ==
    [f \in 1..fc |-> Column(ShapeCycle[((f - 1) % Len(ShapeCycle)) + 1], nfb)]

\* Before __init__ has run nothing is normalized or precomputed.
\* The real-time visualizers before their first chunk, and no reader yet.
SideIdle ==
    /\ play_pc = "idle"
    /\ observed = None
    /\ audio_queue = <<>>
    /\ captured = 0
    /\ shown = <<>>
    /\ bars = 0
    /\ animate_pc = "idle"
    /\ capture_alive = TRUE
    /\ prev_fft = [k \in 1..RtBins |-> 0]
    /\ curve = None
    /\ indata = None
    /\ callbacks = 0

NotYetPrecomputed ==
    /\ SideIdle
    /\ color_query = None
    /\ magnitude = <<>>
    /\ pframe = 0
    /\ prev_heights = None
    /\ precompute_calls = 0
    /\ precomputed_heights = <<>>
    /\ precomputed_colors = <<>>
    /\ precomputed_timestamps = <<>>

Init ==
    /\ variant \in Variants
    /\ device \in Devices
    /\ frame_count \in FrameCounts(variant)
    /\ phase = "new"
    /\ error = "none"
    /\ is_playing = FALSE
    /\ audio_start_time = None
    /\ sync_adjustments = 0
    /\ precomputed_len = 0
    /\ now = T0
    /\ play_calls = 0
    /\ stop_calls = 0
    /\ drawn = FALSE
    /\ next_frame = 0
    /\ redraws = 0
    /\ closed = FALSE
    /\ loop_i = 0
    /\ lastTick = NoTick
    /\ prevTick = NoTick
    /\ query = None
    /\ script \in ScriptsOf(variant)
    /\ num_bars = SpecBars
    /\ num_freq_bins = SpecBins
    /\ log_magnitude = SampleSpectrogram(frame_count, num_freq_bins)
    /\ NotYetPrecomputed

\* num_freq_bins // self.num_bars (and 2 * pi / num_bars in the circular
\* scripts) raises ZeroDivisionError for num_bars = 0.
BinningRaises(n) == n = 0

\* The circular scripts create their bars after the precompute with
\* np.linspace(0, 2*pi, num_bars), which raises ValueError for a negative
\* count; the bar chart of FileVisualizer is created before it from
\* range(num_bars), which is merely empty.
BarsRaise(s, v, n) == n < 0 /\ (s = "deepseek" \/ v = "alt_mpl")

\* __init__: mixer, spectrogram, normalization, then the whole precompute
\* loop; an exception at any point leaves no visualizer object.
Construct ==
    /\ phase = "new"
    /\ IF MixerInitRaises(device)
       THEN /\ phase' = "failed" /\ error' = "mixer"
            /\ UNCHANGED <<precomputed_len, magnitude, pframe, prev_heights,
                           precompute_calls, storeVars>>
       ELSE IF NormalizeRaises(frame_count)
       THEN /\ phase' = "failed" /\ error' = "normalize"
            /\ UNCHANGED <<precomputed_len, magnitude, pframe, prev_heights,
                           precompute_calls, storeVars>>
       ELSE IF ProgressRaises(variant, frame_count)
       THEN /\ phase' = "failed" /\ error' = "progress"
            /\ magnitude' = Normalize(script, log_magnitude, num_freq_bins)
            /\ precompute_calls' = precompute_calls + 1
            /\ UNCHANGED <<precomputed_len, pframe, prev_heights, storeVars>>
       ELSE IF BinningRaises(num_bars)
       THEN /\ phase' = "failed" /\ error' = "binning"
            /\ magnitude' = Normalize(script, log_magnitude, num_freq_bins)
            /\ precompute_calls' = precompute_calls + 1
            /\ UNCHANGED <<precomputed_len, pframe, prev_heights, storeVars>>
       ELSE LET M == Normalize(script, log_magnitude, num_freq_bins)
                st == precompute_from(script, EmptyStore, M, 0, num_bars,
                                      frame_count)
            IN  /\ IF BarsRaise(script, variant, num_bars)
                   THEN phase' = "failed" /\ error' = "bars"
                   ELSE phase' = "ready" /\ error' = "none"
                /\ magnitude' = M
                /\ precompute_calls' = precompute_calls + 1
                /\ pframe' = frame_count
                /\ prev_heights' = st.prev
                /\ precomputed_heights' = st.heights
                /\ precomputed_colors' = st.colors
                /\ precomputed_timestamps' = st.timestamps
                /\ precomputed_len' = Len(st.heights)
    /\ UNCHANGED <<variant, device, frame_count, is_playing, audio_start_time,
                   sync_adjustments, now, play_calls, stop_calls, drawn,
                   next_frame, redraws, closed, loop_i, lastTick, prevTick,
                   query, script, num_bars, num_freq_bins, log_magnitude,
                   color_query, sideVars>>

\* ------------------------------------------------------------------- clock
AdvanceClock ==
    /\ \E d \in ClockSteps :
          /\ now + d <= MaxNow(frame_count)
          /\ now' = now + d
    /\ UNCHANGED <<variant, device, frame_count, phase, error, is_playing,
                   audio_start_time, sync_adjustments, precomputed_len,
                   play_calls, stop_calls, drawn, next_frame, redraws,
                   closed, loop_i, lastTick, prevTick, query>>
    /\ UNCHANGED <<inputVars, storeVars>>

\* ---------------------------------------------------------------- playback
\* play_audio: the result on (is_playing, audio_start_time, play_calls).
play_audio(playing, start, calls) ==
    IF device = "ok"
    THEN [is_playing |-> TRUE, audio_start_time |-> Some(now),
          play_calls |-> calls + 1]
    ELSE [is_playing |-> FALSE, audio_start_time |-> start,
          play_calls |-> calls]

\* stop_audio: the result on (is_playing, audio_start_time).
stop_audio(playing, start) ==
    [is_playing |-> FALSE, audio_start_time |-> start]

\* ------------------------------------------------------------ render ticks
\* FileVisualizer.animate(frame): the new values of the playback state, the
\* correction counter and the record of what the tick displayed.
animate_playback(frame, kind) ==
    IF frame = 0 /\ ~is_playing
    THEN LET pa == play_audio(is_playing, audio_start_time, play_calls)
             actual == Min(0, precomputed_len - 1)
         IN  [is_playing |-> pa.is_playing,
              audio_start_time |-> pa.audio_start_time,
              play_calls |-> pa.play_calls,
              sync_adjustments |-> sync_adjustments,
              tick |-> [kind |-> kind, frame |-> frame, playing |-> is_playing,
                        expected |-> None,
                        actual |-> IF actual < precomputed_len
                                   THEN Some(actual) ELSE None,
                        adj |-> 0]]
    ELSE LET audio_frame == get_current_frame_from_audio(
                                variant, is_playing, audio_start_time, now,
                                frame_count)
             pol == DriftPolicy(frame, audio_frame)
             actual == Min(pol.actual, precomputed_len - 1)
         IN  [is_playing |-> is_playing,
              audio_start_time |-> audio_start_time,
              play_calls |-> play_calls,
              sync_adjustments |-> sync_adjustments + pol.adj,
              tick |-> [kind |-> kind, frame |-> frame, playing |-> is_playing,
                        expected |-> audio_frame,
                        actual |-> IF actual < precomputed_len
                                   THEN Some(actual) ELSE None,
                        adj |-> pol.adj]]

\* An animate that scales the heights of the frame it shows in the store
\* itself instead of on the bars.
animate_scaling_stored(frame, kind) ==
    LET r == animate_playback(frame, kind)
    IN  r @@ [precomputed_heights |->
                IF r.tick.actual = None THEN precomputed_heights
                ELSE [precomputed_heights
                        EXCEPT ![Val(r.tick.actual) + 1] =
                            [j \in DOMAIN @ |-> @[j] * 2]]]

\* An animate that treats a correction as an error and stops playback.
animate_stop_on_drift(frame, kind) ==
    LET r == animate_playback(frame, kind)
    IN  [r EXCEPT !.is_playing = IF r.tick.adj = 1 THEN FALSE ELSE @]
            @@ [precomputed_heights |-> precomputed_heights]

\* An animate that, on a correction, shows the record after the audio frame
\* without the clamp to the last record.
animate_past_end(frame, kind) ==
    LET r == animate_playback(frame, kind)
    IN  [r EXCEPT !.tick.actual = IF r.tick.adj = 1 /\ @ # None
                                  THEN Some(Val(@) + 1) ELSE @]
            @@ [precomputed_heights |-> precomputed_heights]

\* animate reads precomputed_heights[actual_frame] and the colors and
\* timestamp of that frame; it assigns none of them.
animate(frame, kind) ==
    animate_playback(frame, kind)
        @@ [precomputed_heights |-> precomputed_heights]

\* CircularAudioVisualizer.animate_matplotlib(frame) of the alt variant.
animate_matplotlib(frame, kind) ==
    LET pa == IF frame = 0
              THEN play_audio(is_playing, audio_start_time, play_calls)
              ELSE [is_playing |-> is_playing,
                    audio_start_time |-> audio_start_time,
                    play_calls |-> play_calls]
        current_frame == get_current_frame_from_audio(
                             variant, pa.is_playing, pa.audio_start_time, now,
                             frame_count)
    IN  [is_playing |-> pa.is_playing,
         audio_start_time |-> pa.audio_start_time,
         play_calls |-> pa.play_calls,
         sync_adjustments |-> sync_adjustments,
         precomputed_heights |-> precomputed_heights,
         tick |-> [kind |-> kind, frame |-> frame, playing |-> is_playing,
                   expected |-> current_frame,
                   actual |-> IF Val(current_frame) < precomputed_len
                              THEN current_frame ELSE None,
                   adj |-> 0]]

Deliver(frame, kind) ==
    LET r == IF variant = "file" THEN animate(frame, kind)
             ELSE animate_matplotlib(frame, kind)
    IN  /\ is_playing' = r.is_playing
        /\ audio_start_time' = r.audio_start_time
        /\ play_calls' = r.play_calls
        /\ sync_adjustments' = r.sync_adjustments
        /\ lastTick' = r.tick
        /\ prevTick' = lastTick
        /\ precomputed_heights' = r.precomputed_heights
        /\ UNCHANGED <<precomputed_colors, precomputed_timestamps>>

\* start(): FuncAnimation is created (frames = frame_count, repeat = False)
\* and the window is shown; the pygame/opencv backends call play_audio here.
\* __main__ without the try around constructor and start().
CanStart_unguarded(ph) == ph \in {"ready", "failed"}

\* __main__: start() is called on the object the constructor returned; an
\* exception in the constructor skips it.
CanStart(ph) == ph = "ready"

Start ==
    /\ CanStart(phase)
    /\ phase' = "running"
    /\ IF variant = "alt_loop"
       THEN LET pa == play_audio(is_playing, audio_start_time, play_calls)
            IN  /\ is_playing' = pa.is_playing
                /\ audio_start_time' = pa.audio_start_time
                /\ play_calls' = pa.play_calls
       ELSE UNCHANGED <<is_playing, audio_start_time, play_calls>>
    /\ UNCHANGED <<variant, device, frame_count, error, sync_adjustments,
                   precomputed_len, now, stop_calls, drawn, next_frame,
                   redraws, closed, loop_i, lastTick, prevTick, query>>
    /\ UNCHANGED <<inputVars, storeVars>>

\* FuncAnimation._init_draw: with no init_func the first frame of a fresh
\* frame sequence is drawn, at the first draw and again on every resize.
InitDraw ==
    /\ phase = "running" /\ variant \in {"file", "alt_mpl"}
    /\ ~closed
    /\ redraws < MaxRedraws
    /\ redraws' = redraws + 1
    /\ drawn' = TRUE
    /\ IF frame_count > 0
       THEN Deliver(0, "init")
       ELSE UNCHANGED <<is_playing, audio_start_time, play_calls,
                        sync_adjustments, lastTick, prevTick, storeVars>>
    /\ UNCHANGED <<variant, device, frame_count, phase, error,
                   precomputed_len, now, stop_calls, next_frame, closed,
                   loop_i, query>>
    /\ UNCHANGED inputVars

\* FuncAnimation._step: the timer delivers the next frame of the sequence.
Step ==
    /\ phase = "running" /\ variant \in {"file", "alt_mpl"}
    /\ ~closed /\ drawn
    /\ next_frame < frame_count
    /\ Deliver(next_frame, "step")
    /\ next_frame' = next_frame + 1
    /\ UNCHANGED <<variant, device, frame_count, phase, error,
                   precomputed_len, now, stop_calls, drawn, redraws, closed,
                   loop_i, query>>
    /\ UNCHANGED inputVars

\* One iteration of the pygame / opencv loop of start().
LoopIter ==
    /\ phase = "running" /\ variant = "alt_loop"
    /\ ~closed
    /\ loop_i < frame_count
    /\ LET current_frame == get_current_frame_from_audio(
                                variant, is_playing, audio_start_time, now,
                                frame_count)
       IN  /\ lastTick' = [kind |-> "loop", frame |-> loop_i,
                           playing |-> is_playing,
                           expected |-> current_frame,
                           actual |-> IF Val(current_frame) < precomputed_len
                                      THEN current_frame ELSE None,
                           adj |-> 0]
           /\ prevTick' = lastTick
    /\ loop_i' = loop_i + 1
    /\ UNCHANGED <<variant, device, frame_count, phase, error, is_playing,
                   audio_start_time, sync_adjustments, precomputed_len, now,
                   play_calls, stop_calls, drawn, next_frame, redraws,
                   closed, query>>
    /\ UNCHANGED <<inputVars, storeVars>>

\* on_close(event): stop_audio() and plt.close('all').
on_close ==
    /\ phase = "running" /\ variant = "file"
    /\ stop_calls < MaxStops
    /\ LET sa == stop_audio(is_playing, audio_start_time)
       IN  /\ is_playing' = sa.is_playing
           /\ audio_start_time' = sa.audio_start_time
    /\ stop_calls' = stop_calls + 1
    /\ closed' = TRUE
    /\ UNCHANGED <<variant, device, frame_count, phase, error,
                   sync_adjustments, precomputed_len, now, play_calls, drawn,
                   next_frame, redraws, loop_i, lastTick, prevTick, query>>
    /\ UNCHANGED <<inputVars, storeVars>>

\* The alt variant has no close handler: closing the window (or QUIT / 'q')
\* only ends the animation or the loop.
AltClose ==
    /\ phase = "running" /\ variant # "file"
    /\ ~closed
    /\ closed' = TRUE
    /\ UNCHANGED <<variant, device, frame_count, phase, error, is_playing,
                   audio_start_time, sync_adjustments, precomputed_len, now,
                   play_calls, stop_calls, drawn, next_frame, redraws,
                   loop_i, lastTick, prevTick, query>>
    /\ UNCHANGED <<inputVars, storeVars>>

Next ==
    \/ Construct
    \/ AdvanceClock
    \/ Start
    \/ InitDraw
    \/ Step
    \/ LoopIter
    \/ on_close
    \/ AltClose

Spec == Init /\ [][Next]_vars

TypeOK ==
    /\ is_playing \in BOOLEAN
    /\ now >= T0
    /\ audio_start_time # None => Val(audio_start_time) <= now
    /\ sync_adjustments \in 0..(ProgressSteps + MaxRedraws)

\* The timer keeps delivering frames, the loop keeps iterating and time keeps
\* passing; closing the window is up to the user.
FairSpec ==
    /\ Spec
    /\ WF_vars(AdvanceClock)
    /\ WF_vars(Step)
    /\ WF_vars(LoopIter)

\* ------------------------------------------- the clock as a pure function
\* Playback has just started at T0; the clock is then queried at later times.
ClockFrameCounts(v) ==
    IF v = "file" THEN {1, SmallFrames, 87, LongFrames}
    ELSE {ProgressSteps, 87, LongFrames}

ClockQueryStep == TicksPerSecond \div SecondParts
ClockQueryMax == T0 + TicksPerSecond + 2 * ClockQueryStep

InitClock ==
    /\ variant \in {"file", "alt_loop"}
    /\ device = "ok"
    /\ frame_count \in ClockFrameCounts(variant)
    /\ phase = "running"
    /\ error = "none"
    /\ is_playing = TRUE
    /\ audio_start_time = Some(T0)
    /\ sync_adjustments = 0
    /\ precomputed_len = frame_count
    /\ now = T0
    /\ play_calls = 1
    /\ stop_calls = 0
    /\ drawn = (variant = "file")
    /\ next_frame = 0
    /\ redraws = IF variant = "file" THEN 1 ELSE 0
    /\ closed = FALSE
    /\ loop_i = 0
    /\ lastTick = IF variant = "file"
                  THEN [kind |-> "init", frame |-> 0, playing |-> FALSE,
                        expected |-> None, actual |-> Some(0), adj |-> 0]
                  ELSE NoTick
    /\ prevTick = NoTick
    /\ query = None
    /\ script \in ScriptsOf(variant)
    /\ num_bars = SpecBars
    /\ num_freq_bins = SpecBins
    /\ log_magnitude = SampleSpectrogram(frame_count, num_freq_bins)
    /\ magnitude = Normalize(script, log_magnitude, num_freq_bins)
    /\ pframe = frame_count
    /\ precompute_calls = 1
    /\ color_query = None
    /\ SideIdle
    /\ LET st == precompute_from(script, EmptyStore, magnitude, 0, num_bars,
                                 frame_count)
       IN  /\ prev_heights = st.prev
           /\ precomputed_heights = st.heights
           /\ precomputed_colors = st.colors
           /\ precomputed_timestamps = st.timestamps

\* Time passes and get_current_frame_from_audio() is called.
ClockQuery ==
    /\ \E d \in {hop_length - 1, ClockQueryStep} :
          /\ now + d <= ClockQueryMax
          /\ now' = now + d
    /\ query' = get_current_frame_from_audio(variant, is_playing,
                                             audio_start_time, now',
                                             frame_count)
    /\ UNCHANGED <<variant, device, frame_count, phase, error, is_playing,
                   audio_start_time, sync_adjustments, precomputed_len,
                   play_calls, stop_calls, drawn, next_frame, redraws,
                   closed, loop_i, lastTick, prevTick, inputVars, storeVars>>

NextClock == ClockQuery

SpecClock == InitClock /\ [][NextClock]_vars

\* ------------------------------------- the constructor, one frame at a time
\* __init__ followed statement by statement: normalization, then the
\* precompute loop one frame per step, over small spectrograms.
PreFrameCounts(s) ==
    IF s = "alt" THEN (0..MaxPreFrames) \cup {ProgressSteps}
    ELSE 0..MaxPreFrames

\* The constructor is about to run on a small spectrogram, with num_bars
\* drawn from BarCounts.
InitPreWith(BarCounts) ==
    /\ script \in Scripts
    /\ variant = IF script = "alt" THEN "alt_mpl" ELSE "file"
    /\ device = "ok"
    /\ frame_count \in PreFrameCounts(script)
    /\ num_bars \in BarCounts
    /\ num_freq_bins \in 1..MaxBins
    /\ \E shapes \in [1..MaxPreFrames -> Shapes] :
          log_magnitude =
              [f \in 1..frame_count |->
                  Column(shapes[((f - 1) % MaxPreFrames) + 1], num_freq_bins)]
    /\ NotYetPrecomputed
    /\ phase = "new"
    /\ error = "none"
    /\ is_playing = FALSE
    /\ audio_start_time = None
    /\ sync_adjustments = 0
    /\ precomputed_len = 0
    /\ now = T0
    /\ play_calls = 0
    /\ stop_calls = 0
    /\ drawn = FALSE
    /\ next_frame = 0
    /\ redraws = 0
    /\ closed = FALSE
    /\ loop_i = 0
    /\ lastTick = NoTick
    /\ prevTick = NoTick
    /\ query = None

InitPre == InitPreWith(1..MaxBars)

sessionVars == <<variant, device, frame_count, is_playing, audio_start_time,
                 sync_adjustments, now, play_calls, stop_calls, drawn,
                 next_frame, redraws, closed, loop_i, lastTick, prevTick,
                 query, script, num_bars, num_freq_bins, log_magnitude,
                 color_query, sideVars>>

\* The normalization statement of __init__.
NormalizeStep ==
    /\ phase = "new"
    /\ IF NormalizeRaises(frame_count)
       THEN /\ phase' = "failed" /\ error' = "normalize"
            /\ UNCHANGED magnitude
       ELSE /\ phase' = "normalized" /\ error' = "none"
            /\ magnitude' = Normalize(script, log_magnitude, num_freq_bins)
    /\ UNCHANGED <<sessionVars, precomputed_len, pframe, prev_heights,
                   precompute_calls, storeVars>>

\* The call of the precompute method: empty lists, prev_heights = None.
EnterPrecompute ==
    /\ phase = "normalized"
    /\ phase' = "precomputing"
    /\ precompute_calls' = precompute_calls + 1
    /\ pframe' = 0
    /\ prev_heights' = EmptyStore.prev
    /\ precomputed_heights' = EmptyStore.heights
    /\ precomputed_colors' = EmptyStore.colors
    /\ precomputed_timestamps' = EmptyStore.timestamps
    /\ precomputed_len' = 0
    /\ UNCHANGED <<sessionVars, error, magnitude>>

\* One iteration of the loop over range(frame_count).
PrecomputeFrame ==
    /\ phase = "precomputing"
    /\ pframe < frame_count
    /\ IF ProgressRaises(variant, frame_count)
       THEN /\ phase' = "failed" /\ error' = "progress"
            /\ UNCHANGED <<pframe, prev_heights, precomputed_len, storeVars>>
       ELSE IF BinningRaises(num_bars)
       THEN /\ phase' = "failed" /\ error' = "binning"
            /\ UNCHANGED <<pframe, prev_heights, precomputed_len, storeVars>>
       ELSE LET st == precompute_frame(
                          script,
                          [prev |-> prev_heights,
                           heights |-> precomputed_heights,
                           colors |-> precomputed_colors,
                           timestamps |-> precomputed_timestamps],
                          magnitude[pframe + 1], pframe, num_bars,
                          frame_count)
            IN  /\ prev_heights' = st.prev
                /\ precomputed_heights' = st.heights
                /\ precomputed_colors' = st.colors
                /\ precomputed_timestamps' = st.timestamps
                /\ precomputed_len' = Len(st.heights)
                /\ pframe' = pframe + 1
                /\ UNCHANGED <<phase, error>>
    /\ UNCHANGED <<sessionVars, magnitude, precompute_calls>>

\* The loop is exhausted and __init__ returns.
FinishPrecompute ==
    /\ phase = "precomputing"
    /\ pframe = frame_count
    /\ IF BarsRaise(script, variant, num_bars)
       THEN phase' = "failed" /\ error' = "bars"
       ELSE phase' = "ready" /\ error' = error
    /\ UNCHANGED <<sessionVars, magnitude, pframe, prev_heights,
                   precompute_calls, precomputed_len, storeVars>>

NextPre ==
    \/ NormalizeStep
    \/ EnterPrecompute
    \/ PrecomputeFrame
    \/ FinishPrecompute

SpecPre == InitPre /\ [][NextPre]_vars

\* ---------------------------------------- the constructor on any num_bars
\* The same constructor called with num_bars that are zero or negative as
\* well: no statement of __init__ tests the argument.
InitConfig == InitPreWith((1 - BadBarsDepth)..1)

SpecConfig == InitConfig /\ [][NextPre]_vars

\* ------------------------------------------ bar colors as a pure function
\* The color computation of the precompute loop, asked for single bars at
\* frame indices spread over a whole turn of the palette.
ColorFrames ==
    (0..MaxColorSmall) \cup {k * ColorFrameStride : k \in 0..MaxColorTurns}

InitColor ==
    /\ script \in Scripts
    /\ variant = IF script = "alt" THEN "alt_mpl" ELSE "file"
    /\ device = "ok"
    /\ frame_count = 0
    /\ num_bars \in 1..MaxColorBars
    /\ num_freq_bins = SpecBins
    /\ log_magnitude = <<>>
    /\ NotYetPrecomputed
    /\ phase = "new"
    /\ error = "none"
    /\ is_playing = FALSE
    /\ audio_start_time = None
    /\ sync_adjustments = 0
    /\ precomputed_len = 0
    /\ now = T0
    /\ play_calls = 0
    /\ stop_calls = 0
    /\ drawn = FALSE
    /\ next_frame = 0
    /\ redraws = 0
    /\ closed = FALSE
    /\ loop_i = 0
    /\ lastTick = NoTick
    /\ prevTick = NoTick
    /\ query = None

\* The color of bar i at frame f is computed.
ColorQuery ==
    /\ \E f \in ColorFrames : \E i \in BarRange(num_bars) :
          color_query' = Some([frame |-> f, bar |-> i,
                               color |-> ColorOf(script, f, i, num_bars)])
    /\ UNCHANGED <<variant, device, frame_count, phase, error, is_playing,
                   audio_start_time, sync_adjustments, precomputed_len, now,
                   play_calls, stop_calls, drawn, next_frame, redraws,
                   closed, loop_i, lastTick, prevTick, query, script,
                   num_bars, num_freq_bins, log_magnitude, magnitude, pframe,
                   prev_heights, precompute_calls, storeVars, sideVars>>

NextColor == ColorQuery

SpecColor == InitColor /\ [][NextColor]_vars

\* --------------------------------- play_audio seen by a concurrent reader
\* Everything but the playback fields and the side programs.
sessionRest == <<variant, device, frame_count, phase, error,
                 sync_adjustments, precomputed_len, drawn, next_frame,
                 redraws, closed, loop_i, lastTick, prevTick, query, script,
                 num_bars, num_freq_bins, log_magnitude, magnitude, pframe,
                 prev_heights, precompute_calls, color_query, storeVars>>

playVars == <<is_playing, audio_start_time, now, play_calls, stop_calls>>

\* An object whose fields are as __init__ assigns them; only the fields a
\* specification follows change afterwards.
QuietSession ==
    /\ variant = "file"
    /\ script = "file"
    /\ device = "ok"
    /\ frame_count = 0
    /\ num_bars = SpecBars
    /\ num_freq_bins = SpecBins
    /\ log_magnitude = <<>>
    /\ NotYetPrecomputed
    /\ phase = "new"
    /\ error = "none"
    /\ is_playing = FALSE
    /\ audio_start_time = None
    /\ sync_adjustments = 0
    /\ precomputed_len = 0
    /\ now = T0
    /\ play_calls = 0
    /\ stop_calls = 0
    /\ drawn = FALSE
    /\ next_frame = 0
    /\ redraws = 0
    /\ closed = FALSE
    /\ loop_i = 0
    /\ lastTick = NoTick
    /\ prevTick = NoTick
    /\ query = None

InitTorn == QuietSession

\* play_audio, first assignment: self.is_playing = True (after load and
\* play succeeded).
TornPlayFlag ==
    /\ play_pc = "idle"
    /\ ~is_playing
    /\ play_calls < MaxTornPlays
    /\ is_playing' = TRUE
    /\ play_calls' = play_calls + 1
    /\ play_pc' = "flag"
    /\ UNCHANGED <<audio_start_time, now, stop_calls, observed, sessionRest,
                   queueVars, realtimeVars>>

\* play_audio, second assignment: self.audio_start_time = time.time().
TornPlayStart ==
    /\ play_pc = "flag"
    /\ audio_start_time' = Some(now)
    /\ play_pc' = "idle"
    /\ UNCHANGED <<is_playing, now, play_calls, stop_calls, observed,
                   sessionRest, queueVars, realtimeVars>>

\* stop_audio, on the thread that also calls play_audio.
TornStop ==
    /\ play_pc = "idle"
    /\ is_playing
    /\ is_playing' = stop_audio(is_playing, audio_start_time).is_playing
    /\ audio_start_time' =
          stop_audio(is_playing, audio_start_time).audio_start_time
    /\ stop_calls' = stop_calls + 1
    /\ UNCHANGED <<now, play_calls, tornVars, sessionRest, queueVars,
                   realtimeVars>>

\* Time passes, between any two statements.
TornTick ==
    /\ now < T0 + MaxTornTicks * ClockQuantum
    /\ now' = now + ClockQuantum
    /\ UNCHANGED <<is_playing, audio_start_time, play_calls, stop_calls,
                   tornVars, sessionRest, queueVars, realtimeVars>>

\* A reader on another thread takes the pair as it stands; no lock orders
\* it against the two assignments of play_audio.  `written` tells whether
\* the start time of the latest start had been assigned.
TornRead ==
    /\ observed' = Some([is_playing |-> is_playing,
                         audio_start_time |-> audio_start_time,
                         written |-> play_pc = "idle"])
    /\ UNCHANGED <<playVars, play_pc, sessionRest, queueVars, realtimeVars>>

NextTorn ==
    \/ TornPlayFlag
    \/ TornPlayStart
    \/ TornStop
    \/ TornTick
    \/ TornRead

SpecTorn == InitTorn /\ [][NextTorn]_vars

\* ------------------------------- MusicVisualizer: capture thread and tick
\* The bar height a chunk yields from process_audio, before clipping.
ChunkLevels == {0, 600, 1500}

\* np.clip(bar_heights, 0, 1000)
clip(h) == Max(0, Min(h, BarCeiling))

\* A Queue.get that takes the newest item.
queue_get_newest(q) ==
    [item |-> q[Len(q)], rest |-> SubSeq(q, 1, Len(q) - 1)]

\* queue.Queue is first in, first out: get removes and returns the oldest
\* item (and blocks while there is none).
queue_get(q) == [item |-> Head(q), rest |-> Tail(q)]

InitQueue == QuietSession

\* audio_callback, one turn of its loop: a chunk is read from the stream and
\* put on the queue.
Capture ==
    /\ capture_alive
    /\ captured < MaxChunks
    /\ \E l \in ChunkLevels :
          audio_queue' = Append(audio_queue,
                                [seq |-> captured + 1, level |-> l])
    /\ captured' = captured + 1
    /\ UNCHANGED <<shown, bars, animate_pc, capture_alive, playVars,
                   tornVars, realtimeVars, sessionRest>>

\* audio_callback: stream.read raises, the loop breaks and the thread ends.
CaptureFails ==
    /\ capture_alive
    /\ capture_alive' = FALSE
    /\ UNCHANGED <<audio_queue, captured, shown, bars, animate_pc, playVars,
                   tornVars, realtimeVars, sessionRest>>

\* animate: `if not self.audio_queue.empty()`.  With the queue empty the
\* tick is over (logged as 0); otherwise it goes on to get().
AnimateCheck ==
    /\ animate_pc = "idle"
    /\ Len(shown) < MaxQueueTicks
    /\ IF audio_queue = <<>>
       THEN /\ shown' = Append(shown, 0)
            /\ UNCHANGED animate_pc
       ELSE /\ animate_pc' = "get"
            /\ UNCHANGED shown
    /\ UNCHANGED <<audio_queue, captured, bars, capture_alive, playVars,
                   tornVars, realtimeVars, sessionRest>>

\* animate: audio_queue.get(), process_audio, clip, set_height.  get()
\* would block on an empty queue.
AnimateGet ==
    /\ animate_pc = "get"
    /\ audio_queue # <<>>
    /\ LET g == queue_get(audio_queue)
       IN  /\ audio_queue' = g.rest
           /\ bars' = clip(g.item.level)
           /\ shown' = Append(shown, g.item.seq)
    /\ animate_pc' = "idle"
    /\ UNCHANGED <<captured, capture_alive, playVars, tornVars,
                   realtimeVars, sessionRest>>

NextQueue ==
    \/ Capture
    \/ CaptureFails
    \/ AnimateCheck
    \/ AnimateGet

SpecQueue == InitQueue /\ [][NextQueue]_vars

\* --------------------------------- RealTimeVisualizer: the audio callback
\* The chunks delivered: their rms (thousandths) around the silence
\* threshold and the magnitudes of their windowed FFT, bin by bin.
RmsLevels == {0, SilenceThreshold - 1, SilenceThreshold}

Spectra ==
    {[k \in 1..RtBins |-> IF k \in S THEN RawPeak \div k ELSE 0] :
        S \in SUBSET (1..RtBins)}

RtZeros == [k \in 1..RtBins |-> 0]

Chunks ==
    {c \in [rms : RmsLevels, fft : Spectra] : c.rms = 0 => c.fft = RtZeros}

\* if np.max(fft_result) > 0: fft_result /= np.max(fft_result)
normalize_fft(f) ==
    LET m == MaxOver({f[k] : k \in 1..RtBins})
    IN  IF m > 0 THEN [k \in 1..RtBins |-> (f[k] * MilliOne) \div m] ELSE f

\* smooth_alpha * prev_fft + (1 - smooth_alpha) * fft_result
smooth_fft(prev, f) ==
    [k \in 1..RtBins |->
        (SmoothAlphaNum * prev[k] + (SmoothAlphaDen - SmoothAlphaNum) * f[k])
            \div SmoothAlphaDen]

\* A callback that starts the smoothing afresh after silence.
audio_callback_forgets(prev, c) ==
    IF c.rms < SilenceThreshold
    THEN [prev_fft |-> RtZeros, curve |-> RtZeros]
    ELSE LET smoothed_fft == smooth_fft(prev, normalize_fft(c.fft))
         IN  [prev_fft |-> smoothed_fft, curve |-> smoothed_fft]

\* audio_callback(indata, ...): the new smoothing state and the curve set.
audio_callback(prev, c) ==
    IF c.rms < SilenceThreshold
    THEN [prev_fft |-> prev, curve |-> RtZeros]
    ELSE LET smoothed_fft == smooth_fft(prev, normalize_fft(c.fft))
         IN  [prev_fft |-> smoothed_fft, curve |-> smoothed_fft]

InitRealtime == QuietSession

\* The input stream delivers a chunk to the callback.
AudioCallback ==
    /\ callbacks < MaxCallbacks
    /\ \E c \in Chunks :
          /\ indata' = Some(c)
          /\ prev_fft' = audio_callback(prev_fft, c).prev_fft
          /\ curve' = Some(audio_callback(prev_fft, c).curve)
    /\ callbacks' = callbacks + 1
    /\ UNCHANGED <<playVars, tornVars, queueVars, sessionRest>>

NextRealtime == AudioCallback

SpecRealtime == InitRealtime /\ [][NextRealtime]_vars

\* ================================================================= claims
Elapsed == get_audio_position(is_playing, audio_start_time, now)

\* A step that delivered a render tick to FileVisualizer.animate.
FileTickStep ==
    /\ variant = "file"
    /\ \/ next_frame' # next_frame
       \/ redraws' # redraws /\ frame_count > 0

\* C1: on every render tick of the file visualizer the drift policy holds.
\* Playing and |expected_frame - nominal_frame| > 2: the frame shown is
\* expected_frame and sync_adjustments grows by exactly 1.  Otherwise (drift
\* of at most 2, or the clock Stopped) the frame shown is the nominal frame
\* and sync_adjustments is unchanged.
C1_DriftPolicyOnEveryTick ==
    [][FileTickStep =>
        LET f == lastTick'.frame
            ef == get_current_frame_from_audio(variant, is_playing,
                                               audio_start_time, now,
                                               frame_count)
        IN  IF is_playing /\ Abs(Val(ef) - f) > 2
            THEN /\ lastTick'.actual = ef
                 /\ sync_adjustments' = sync_adjustments + 1
            ELSE /\ lastTick'.actual = Some(f)
                 /\ sync_adjustments' = sync_adjustments]_vars

\* A tick while Playing snapped the shown frame to the audio frame.
C1_Witness ==
    /\ variant = "file"
    /\ lastTick.kind = "step" /\ lastTick.playing
    /\ lastTick.adj = 1
    /\ lastTick.actual = lastTick.expected
    /\ sync_adjustments >= 1

\* C2: when the nominal frame counter runs 5 frames ahead of the expected
\* frame and a correction is counted, the following tick, on which the
\* nominal counter and the audio frame both advanced by one, counts no
\* further correction for that drift.
C2_CorrectionCountedOnce ==
    ~ /\ variant = "file"
      /\ prevTick.kind # "none" /\ prevTick.playing /\ prevTick.adj = 1
      /\ prevTick.frame - Val(prevTick.expected) = 5
      /\ lastTick.kind = "step"
      /\ lastTick.frame = prevTick.frame + 1
      /\ lastTick.expected = Some(Val(prevTick.expected) + 1)
      /\ lastTick.adj = 1

\* C3: over consecutive ticks with increasing nominal frame (the clock never
\* runs backwards) the index of the frame shown never decreases.
C3_FramesNeverReordered ==
    ( /\ variant = "file"
      /\ prevTick.kind # "none" /\ lastTick.kind # "none"
      /\ lastTick.frame > prevTick.frame
      /\ prevTick.actual # None /\ lastTick.actual # None )
    => Val(lastTick.actual) >= Val(prevTick.actual)

\* C4: whenever the clock of a constructed visualizer is Stopped, the
\* elapsed time is 0 and the expected frame is absent, never a frame number.
C4_StoppedClockHasNoFrame ==
    (phase \in {"ready", "running"} /\ ~is_playing)
    => /\ Elapsed = 0
       /\ get_current_frame_from_audio(variant, is_playing, audio_start_time,
                                       now, frame_count) = None

\* C5: while Playing the expected frame is
\* min(floor(elapsed * sample_rate / hop_length), frame_count - 1): never
\* above frame_count - 1, non-decreasing as time advances, and 86 after one
\* second at 22050 Hz with hop 256.
C5_ExpectedFrameFormula ==
    /\ [](query # None =>
            /\ Val(query) = Min(((now - T0) * 22050) \div (256 * TicksPerSecond),
                                frame_count - 1)
            /\ Val(query) <= frame_count - 1
            /\ (now - T0 = TicksPerSecond /\ frame_count > 86
                  => Val(query) = 86))
    /\ [][(query # None /\ query' # None) => Val(query') >= Val(query)]_vars

\* One second after the start the query returned frame 86.
C5_Witness ==
    /\ is_playing /\ now - T0 = TicksPerSecond
    /\ frame_count > 86
    /\ query = Some(86)

\* C6: the clock never restarts.  The start time is never overwritten while
\* Playing, and once Stopped after having played no step makes it Playing
\* again.
C6_NoRestart ==
    [][ /\ (is_playing /\ is_playing') => audio_start_time' = audio_start_time
        /\ (audio_start_time # None /\ ~is_playing) => ~is_playing' ]_vars

\* C7: stopping is idempotent and immediately observable.  Whenever
\* is_playing is false the elapsed time reads 0; a stop leaves is_playing
\* false and the elapsed time 0, and a stop of a Stopped clock leaves
\* (is_playing, audio_start_time) as it was.
C7_StopIdempotentObservable ==
    /\ [](~is_playing => Elapsed = 0)
    /\ [][stop_calls' = stop_calls + 1 =>
            /\ ~is_playing'
            /\ get_audio_position(is_playing', audio_start_time', now') = 0
            /\ ~is_playing =>
                 <<is_playing', audio_start_time'>> =
                 <<is_playing, audio_start_time>>]_vars

\* Playback was started, time passed, and stop was called twice.
C7_Witness ==
    /\ variant = "file"
    /\ stop_calls = 2
    /\ audio_start_time # None /\ Val(audio_start_time) < now
    /\ ~is_playing

\* C8: once the elapsed time reaches the total duration of the track the
\* clock eventually becomes Stopped.
C8_EndOfTrackStops ==
    (is_playing /\ Elapsed >= total_duration(frame_count)) ~> ~is_playing

\* C9: without a working audio device the visualizer is still constructed,
\* precomputes every frame, the clock stays Stopped and every render tick
\* shows frame 0.
C9_NoDeviceShowsFrameZero ==
    device # "ok" =>
        /\ error # "mixer"
        /\ ~is_playing
        /\ (phase \in {"ready", "running"} => precomputed_len = frame_count)
        /\ (lastTick.kind # "none" => lastTick.actual = Some(0))

\* C10: when analysis yields zero frames playback is never started: the
\* transport's play is never invoked and is_playing never becomes true.
C10_ZeroFramesNeverPlay ==
    frame_count = 0 => (play_calls = 0 /\ ~is_playing)

\* A zero-frame track on a working device: construction stopped at the
\* normalization, before start() could run.
C10_Witness ==
    /\ frame_count = 0 /\ device = "ok"
    /\ variant = "alt_loop"
    /\ phase = "failed" /\ error = "normalize"

\* ------------------------------------------------- claims on the precompute
\* The frames precomputed so far, the raw (floored, unsmoothed) bar heights
\* of frame f and the smoothed heights the loop kept for it.
Frames == 1..Len(precomputed_heights)

RawAt(f) == RawBarHeights(script, magnitude[f], num_bars)

SmoothedAt(f) ==
    IF script = "alt"
    THEN [j \in DOMAIN precomputed_heights[f] |->
            precomputed_heights[f][j] \div RadiusSpan]
    ELSE precomputed_heights[f]

\* The bars whose group [start_idx, end_idx) contains bin k.
BarsOfBin(k) ==
    {i \in BarRange(num_bars) :
        /\ start_idx(i, num_freq_bins, num_bars) <= k
        /\ k < end_idx(script, i, num_freq_bins, num_bars)}

EmptyGroup(i) ==
    end_idx(script, i, num_freq_bins, num_bars)
        <= start_idx(i, num_freq_bins, num_bars)

\* C11: for every precomputed frame and every bar, the stored (smoothed) bar
\* height is a number at least the floor constant 0.01, never zero.
C11_HeightsAtLeastFloor ==
    \A f \in Frames : \A j \in DOMAIN precomputed_heights[f] :
        /\ ~IsNaN(precomputed_heights[f][j])
        /\ precomputed_heights[f][j] >= FloorCircular

\* C12: once the loop has binned a frame, every frequency bin belongs to
\* the group [start_idx, end_idx) of exactly one bar.
C12_GroupsPartitionBins ==
    pframe >= 1 =>
        \A k \in 0..(num_freq_bins - 1) : Cardinality(BarsOfBin(k)) = 1

\* C13 as stated: when num_bars exceeds the number of bins (bins_per_bar is
\* 0), the raw height of every bar, the last one included, is the script's
\* floor constant.
C13_ZeroBinsAllFloor ==
    bins_per_bar(num_freq_bins, num_bars) = 0 =>
        \A f \in Frames : \A j \in 1..num_bars :
            RawAt(f)[j] = FloorOf(script)

\* C13 amended: a bar whose group is empty has the script's floor constant
\* as raw height; when bins_per_bar is 0 that is every bar of the circular
\* scripts and every bar but the last of FileVisualizer, whose last bar
\* then groups all the bins and has their floored RMS as raw height.
C13_EmptyGroupIsFloor ==
    /\ \A f \in Frames : \A i \in BarRange(num_bars) :
          EmptyGroup(i) => RawAt(f)[i + 1] = FloorOf(script)
    /\ (pframe >= 1 /\ bins_per_bar(num_freq_bins, num_bars) = 0) =>
          /\ \A i \in BarRange(num_bars) :
                EmptyGroup(i) <=> (script # "file" \/ i # num_bars - 1)
          /\ script = "file" =>
                /\ start_idx(num_bars - 1, num_freq_bins, num_bars) = 0
                /\ end_idx(script, num_bars - 1, num_freq_bins, num_bars)
                      = num_freq_bins
                /\ \A f \in Frames :
                      RawAt(f)[num_bars] =
                          Max(ISqrt(SumSquares(magnitude[f], 0, num_freq_bins)
                                        \div num_freq_bins) * MilliOne,
                              FloorOf(script))

\* FileVisualizer with more bars than bins has binned a sounding frame: its
\* last bar stands above the floor, the others on it.
C13_Witness ==
    /\ script = "file" /\ phase = "ready"
    /\ num_bars >= 2
    /\ bins_per_bar(num_freq_bins, num_bars) = 0
    /\ \E f \in Frames :
          /\ RawAt(f)[num_bars] > FloorOf(script)
          /\ RawAt(f)[1] = FloorOf(script)

\* C14: the precompute is a fold in frame order: frame 0 is stored
\* unsmoothed; for f >= 1 each bar's height is
\* alpha * height[f-1] + (1 - alpha) * raw[f] (to the rounding of one unit)
\* with height[f-1] the stored smoothed value of the previous frame; and
\* prev_heights holds exactly that one latest vector.
C14_FoldOverSmoothed ==
    /\ Len(precomputed_heights) = pframe
    /\ \A f \in Frames :
          /\ SmoothedAt(f) = IF f = 1 THEN RawAt(1)
                             ELSE Smooth(SmoothedAt(f - 1), RawAt(f))
          /\ f >= 2 =>
                \A j \in 1..num_bars :
                    LET h == SmoothedAt(f)[j]
                        p == SmoothedAt(f - 1)[j]
                        r == RawAt(f)[j]
                    IN  (~IsNaN(p) /\ ~IsNaN(r)) =>
                           (SmoothingNum * p + (SmoothingDen - SmoothingNum) * r)
                               - SmoothingDen * h \in 0..(SmoothingDen - 1)
    /\ prev_heights = IF pframe = 0 THEN None ELSE Some(SmoothedAt(pframe))

\* A third frame has been smoothed against a second frame whose stored
\* height differs from its raw height.
C14_Witness ==
    /\ script \in {"file", "deepseek"}
    /\ pframe >= 3
    /\ \E j \in 1..num_bars :
          /\ SmoothedAt(2)[j] # RawAt(2)[j]
          /\ SmoothedAt(3)[j] # RawAt(3)[j]
          /\ ~IsNaN(SmoothedAt(3)[j])

C16_OneRecordPerColumn ==
    /\ Len(precomputed_heights) = pframe
    /\ Len(precomputed_colors) = pframe
    /\ script = "file" => Len(precomputed_timestamps) = pframe
    /\ phase = "ready" =>
          /\ pframe = frame_count
          /\ Len(magnitude) = frame_count
    /\ \A f \in Frames :
          /\ Len(precomputed_heights[f]) = num_bars
          /\ Len(precomputed_colors[f]) = num_bars
          /\ \A j \in 1..num_bars : Len(precomputed_colors[f][j]) = 3
          /\ precomputed_colors[f] = Colors(script, f - 1, num_bars)

\* A precompute of several columns and several bars has returned.
C16_Witness ==
    /\ phase = "ready"
    /\ frame_count >= 2 /\ num_bars >= 2
    /\ Len(precomputed_heights) = frame_count

\* C17: once the precompute has returned, no step (render tick, start of
\* playback, stop, close, passing time) changes a stored height, color or
\* timestamp record.
C17_StoreImmutable ==
    [][(phase = "ready" \/ phase = "running") =>
          (/\ precomputed_heights' = precomputed_heights
           /\ precomputed_colors' = precomputed_colors
           /\ precomputed_timestamps' = precomputed_timestamps)]_vars

\* Ticks have shown frames, playback has started and the window has been
\* closed, and the store still holds what the precompute produced.
C17_Witness ==
    /\ variant = "file" /\ closed /\ stop_calls >= 1 /\ play_calls >= 1
    /\ lastTick.kind = "step" /\ lastTick.actual # None
    /\ frame_count >= 2
    /\ precomputed_heights =
          precompute_from(script, EmptyStore, magnitude, 0, num_bars,
                          frame_count).heights

\* C18: the precompute runs exactly once and has completed before playback:
\* play is never invoked and no tick is delivered while fewer than
\* frame_count records are stored, and after a failed construction nothing
\* is stored, played or shown.
C18_PrecomputeBeforePlayback ==
    /\ precompute_calls <= 1
    /\ phase \in {"ready", "running"} =>
          /\ precompute_calls = 1
          /\ Len(precomputed_heights) = frame_count
          /\ Len(precomputed_colors) = frame_count
    /\ (play_calls >= 1 \/ lastTick # NoTick) =>
          /\ phase = "running"
          /\ Len(precomputed_heights) = frame_count
    /\ phase = "failed" =>
          /\ play_calls = 0 /\ lastTick = NoTick
          /\ precomputed_heights = <<>> /\ precomputed_colors = <<>>

\* Playback has started on a fully precomputed track.
C18_Witness ==
    /\ play_calls >= 1 /\ lastTick # NoTick
    /\ frame_count >= 2
    /\ precompute_calls = 1
    /\ Len(precomputed_heights) = frame_count

\* C19: once normalized, every magnitude is in [0, 1] and is its
\* log-magnitude divided by the maximum of its own bin over all frames; a
\* bin whose maximum is zero stays zero.
C19_PerBinNormalized ==
    magnitude # <<>> =>
        \A f \in 1..Len(magnitude) : \A k \in 1..num_freq_bins :
            /\ magnitude[f][k] \in 0..MilliOne
            /\ magnitude[f][k] =
                  IF BinMax(log_magnitude, k) > 0
                  THEN (log_magnitude[f][k] * MilliOne)
                           \div BinMax(log_magnitude, k)
                  ELSE 0

\* The position of the queried bar, its base and target palette entries
\* and the exact interpolation between them, the latter two multiplied by
\* PositionDen.
QPositionNum ==
    PositionNum(script, Val(color_query).frame, Val(color_query).bar,
                num_bars)

QDen == PositionDen(script, num_bars)

QBase == (QPositionNum \div QDen) % 7

QTarget == IF QBase = 6 THEN 0 ELSE QBase + 1

QFraction == QPositionNum - (QPositionNum \div QDen) * QDen

QLerp(c) ==
    vibgyor_colors(script)[QBase + 1][c] * QDen
        + QFraction * (vibgyor_colors(script)[QTarget + 1][c]
                          - vibgyor_colors(script)[QBase + 1][c])

QChannel(c) ==
    IF script = "deepseek" THEN Val(color_query).color[c]
    ELSE Val(color_query).color[c] * QDen

\* The cached step FileVisualizer reads: int(factor * 49).
QStep == (QFraction * (ColorSteps - 1)) \div QDen

\* C20 as stated: every channel of the color is the exact linear
\* interpolation between palette[base] and palette[(base + 1) mod 7] by the
\* fractional part of position.
C20_ExactInterpolation ==
    color_query # None => \A c \in 1..3 : QChannel(c) = QLerp(c)

\* C20 amended: the base index is the integer part of position mod 7, in
\* 0..6, and the target is (base + 1) mod 7; deepseekVisualise.py stores the
\* exact interpolation; alternativeVisualization.py stores it truncated to
\* an integer; FileVisualizer stores the truncated interpolation at the
\* cached step int(factor * 49) / 50, which never exceeds the exact one's
\* distance from the base color.
C20_InterpolationAsStored ==
    color_query # None =>
        \A c \in 1..3 :
            LET c1 == vibgyor_colors(script)[QBase + 1][c]
                c2 == vibgyor_colors(script)[QTarget + 1][c]
                v == Val(color_query).color[c]
            IN  /\ QBase \in 0..6 /\ QTarget \in 0..6
                /\ script = "deepseek" => v = QLerp(c)
                /\ script = "alt" =>
                      /\ v * QDen <= QLerp(c)
                      /\ QLerp(c) < (v + 1) * QDen
                /\ script = "file" =>
                      /\ QStep \in 0..(ColorSteps - 1)
                      /\ QStep * QDen <= QFraction * ColorSteps
                      /\ LET cached == c1 * ColorSteps + QStep * (c2 - c1)
                         IN  /\ v * ColorSteps <= cached
                             /\ cached < (v + 1) * ColorSteps
                      /\ Min(c1, c2) <= v /\ v <= Max(c1, c2)

\* FileVisualizer has colored a bar lying strictly between the last
\* palette entry and the first.
C20_Witness ==
    /\ color_query # None
    /\ script = "file"
    /\ QBase = 6 /\ QTarget = 0
    /\ QFraction > 0
    /\ Val(color_query).color # vibgyor_colors(script)[7]

C22_BadConfigRejected ==
    num_bars <= 0 =>
        /\ phase # "ready"
        /\ pframe = 0
        /\ precomputed_heights = <<>>

\* C23: a tick that corrects a drift over the threshold changes only the
\* frame shown and the correction counter: the playing flag, the start time,
\* the render loop and the window are as they were before the tick.
C23_CorrectionNonFatal ==
    [][(FileTickStep /\ lastTick'.adj = 1) =>
          (/\ is_playing' = is_playing
           /\ audio_start_time' = audio_start_time
           /\ sync_adjustments' = sync_adjustments + 1
           /\ phase' = phase
           /\ closed' = closed
           /\ error' = error)]_vars

\* A second correction in one session: the loop went on after the first.
C23_Witness ==
    /\ variant = "file" /\ phase = "running" /\ ~closed
    /\ is_playing
    /\ lastTick.adj = 1
    /\ sync_adjustments >= 2

\* C24: the start wallclock is present exactly while audio is playing.
C24_StartTimeIffPlaying ==
    variant = "file" => ((audio_start_time # None) <=> is_playing)

\* C28: the index a tick reads the heights and colors with lies within
\* 0..frame_count-1 and within the stored records; with no frame nothing is
\* read.
C28_IndexInRange ==
    /\ lastTick.actual # None =>
          /\ Val(lastTick.actual) \in 0..(frame_count - 1)
          /\ Val(lastTick.actual) < Len(precomputed_heights)
    /\ frame_count = 0 => lastTick.actual = None

\* A correcting tick showed the last record while the nominal frame was an
\* earlier one.
C28_Witness ==
    /\ lastTick.adj = 1
    /\ lastTick.actual = Some(frame_count - 1)
    /\ lastTick.frame < frame_count - 1

\* C26: the progress notifications have no effect: whatever the number of
\* frames (at least one), the precompute does not fail on them.
C26_ProgressHarmless ==
    frame_count >= 1 => error # "progress"

\* C27: the cached color agrees with the direct interpolation to within one
\* interpolation step of the segment on every channel (and one level for
\* the truncation to an integer), and the step index lies in the cache.
C27_CacheWithinOneStep ==
    (color_query # None /\ script = "file") =>
        /\ QStep \in 0..(ColorSteps - 1)
        /\ \A c \in 1..3 :
              LET c1 == vibgyor_colors(script)[QBase + 1][c]
                  c2 == vibgyor_colors(script)[QTarget + 1][c]
                  v == Val(color_query).color[c]
              IN  Abs(v * QDen - QLerp(c)) * ColorSteps
                      <= Abs(c2 - c1) * QDen + ColorSteps * QDen

ShownChunks == SelectSeq(shown, LAMBDA k : k # 0)

\* C29: every captured chunk is displayed at most once and in capture
\* order; a tick takes at most one chunk off the queue; a tick never waits
\* on an empty queue, and one that finds the queue empty leaves the bars
\* and the queue as they are.
C29_QueueDiscipline ==
    /\ [](/\ \A i, j \in 1..Len(ShownChunks) :
                i < j => ShownChunks[i] < ShownChunks[j]
          /\ \A i \in 1..Len(ShownChunks) : ShownChunks[i] \in 1..captured
          /\ animate_pc = "get" => audio_queue # <<>>)
    /\ [][/\ Len(audio_queue') >= Len(audio_queue) - 1
          /\ (Len(audio_queue') < Len(audio_queue)) =>
                 (/\ Len(shown') = Len(shown) + 1
                  /\ shown'[Len(shown')] = Head(audio_queue).seq
                  /\ bars' = clip(Head(audio_queue).level))
          /\ (Len(shown') > Len(shown) /\ shown'[Len(shown')] = 0) =>
                 (/\ bars' = bars
                  /\ audio_queue' = audio_queue
                  /\ audio_queue = <<>>)]_vars

\* Two chunks were shown from a backlog of two, the second clipped, an
\* empty tick came after them and left the bars at the ceiling.
C29_Witness ==
    /\ Len(ShownChunks) >= 2
    /\ shown[Len(shown)] = 0
    /\ bars = BarCeiling
    /\ captured > Len(ShownChunks)

\* C30: a silent chunk (rms below the threshold) shows the all-zero curve
\* and leaves prev_fft as it was; a chunk that is not silent shows
\* 0.8 * prev_fft + 0.2 * its normalized spectrum, computed on the prev_fft
\* retained from before any silence, and prev_fft becomes exactly the curve
\* shown.
C30_SilenceKeepsSpectrum ==
    [][callbacks' # callbacks =>
          LET c == Val(indata')
              m == MaxOver({c.fft[k] : k \in 1..RtBins})
          IN  IF c.rms < SilenceThreshold
              THEN /\ prev_fft' = prev_fft
                   /\ \A k \in 1..RtBins : Val(curve')[k] = 0
              ELSE /\ prev_fft' = Val(curve')
                   /\ \A k \in 1..RtBins :
                        LET fk == IF m > 0 THEN (c.fft[k] * MilliOne) \div m
                                  ELSE c.fft[k]
                            exact == 4 * prev_fft[k] + fk
                        IN  /\ 5 * Val(curve')[k] <= exact
                            /\ exact < 5 * Val(curve')[k] + 5]_vars

\* A silent chunk has been shown as zeros while a spectrum built from two
\* earlier chunks is retained.
C30_Witness ==
    /\ callbacks = MaxCallbacks
    /\ indata # None /\ Val(indata).rms < SilenceThreshold
    /\ Val(indata).rms > 0
    /\ curve = Some(RtZeros)
    /\ \E k \in 1..RtBins : prev_fft[k] > (MilliOne \div 5)

====
